---- MODULE Spec2Model ----
(***************************************************************************)
(* Pricing engine of the eBay resale analyzer                              *)
(* (src/services/priceCalculator.js) and the request handler that calls it *)
(* (src/unnamed/part_001).                                                 *)
(*                                                                         *)
(* Amounts of money are exact decimal fractions held as integers counting  *)
(* 1/UnitsPerDollar of a dollar.  Every multiplication the code performs   *)
(* (by 0.7, 0.3, 0.9, 0.92, 1.05, 0.85, 1.15) is exact on the input grids  *)
(* used below, so no value is ever truncated by the representation; on    *)
(* these grids the double-precision arithmetic of the code rounds to the   *)
(* same results as the exact arithmetic.                                   *)
(* A JavaScript null price is NULL; a count is either a number or one of   *)
(* the strings the providers put in its place ('Unknown', 'N/A', 'Error'). *)
(* The price lists given to removeOutliers and analyzePriceDistribution     *)
(* hold prices counted in half dollars.                                    *)
(***************************************************************************)
EXTENDS Integers, Sequences, FiniteSets, TLC

VARIABLES snapshot, result, locals, price, rounded, rerounded, pc,
          prices, outl, outl2, dist, reqs, moduleScope,
          client, search, calls, priceRange, item,
          upload, unlinked, responses, steps, failure,
          parsed, confidence,
          selectedFiles, analyzeDisabled, posted, accepted

calcVars == <<snapshot, result, locals>>
roundVars == <<price, rounded, rerounded>>
listVars == <<prices, outl, outl2, dist>>
serverVars == <<reqs, moduleScope>>
providerVars == <<client, search, calls, priceRange, item>>
lifecycleVars == <<upload, unlinked, responses, steps, failure>>
imageVars == <<parsed, confidence>>
uiVars == <<selectedFiles, analyzeDisabled, posted, accepted>>

vars == <<snapshot, result, locals, price, rounded, rerounded, pc,
          prices, outl, outl2, dist, reqs, moduleScope,
          client, search, calls, priceRange, item,
          upload, unlinked, responses, steps, failure,
          parsed, confidence,
          selectedFiles, analyzeDisabled, posted, accepted>>

----------------------------------------------------------------------------
(* Representation of JavaScript values *)

UnitsPerDollar == 80000
Cent == UnitsPerDollar \div 100
Quarter == UnitsPerDollar \div 4

NULL == -1
UNDEFINED == -2

Num(n) == [isNum |-> TRUE, n |-> n, s |-> ""]
Str(s) == [isNum |-> FALSE, n |-> 0, s |-> s]

\* x > k, x >= k, x < k for a count x that may be a non-numeric string:
\* the string converts to NaN and every comparison with NaN is false.
GT(x, k) == x.isNum /\ x.n > k
GE(x, k) == x.isNum /\ x.n >= k
LT(x, k) == x.isNum /\ x.n < k

\* a quotient of two counts, or NaN
NaN == [nan |-> TRUE, n |-> 0, d |-> 1]
Ratio(n, d) == [nan |-> FALSE, n |-> n, d |-> d]
RatioLT(r, n, d) == ~r.nan /\ r.n * d < n * r.d
RatioGT(r, n, d) == ~r.nan /\ r.n * d > n * r.d

\* x * (num/den), exact because den divides x on the grids used
Mul(x, num, den) == (x \div den) * num

\* Math.floor in place of Math.round
MathRoundFloor(n, d) == n \div d

\* Math.round(n/d) for d > 0: the nearest integer, halves towards +Infinity
MathRound(n, d) == (2 * n + d) \div (2 * d)

\* Math.round(x * 100) / 100 for an amount x
Round2(x) == MathRound(x, Cent) * Cent

----------------------------------------------------------------------------
(* roundToNearestSensible *)

\* the first band returns Math.round(price * 2), the division by 2 forgotten
roundToNearestSensibleNoHalve(p) ==
    IF p < 10 * UnitsPerDollar
      THEN MathRound(2 * p, UnitsPerDollar) * UnitsPerDollar
    ELSE IF p < 50 * UnitsPerDollar
      THEN MathRound(p, UnitsPerDollar) * UnitsPerDollar
    ELSE IF p < 100 * UnitsPerDollar
      THEN MathRound(p, 5 * UnitsPerDollar) * 5 * UnitsPerDollar
    ELSE IF p < 500 * UnitsPerDollar
      THEN MathRound(p, 10 * UnitsPerDollar) * 10 * UnitsPerDollar
    ELSE MathRound(p, 25 * UnitsPerDollar) * 25 * UnitsPerDollar

roundToNearestSensible(p) ==
    IF p < 10 * UnitsPerDollar
      THEN MathRound(2 * p, UnitsPerDollar) * (UnitsPerDollar \div 2)
    ELSE IF p < 50 * UnitsPerDollar
      THEN MathRound(p, UnitsPerDollar) * UnitsPerDollar
    ELSE IF p < 100 * UnitsPerDollar
      THEN MathRound(p, 5 * UnitsPerDollar) * 5 * UnitsPerDollar
    ELSE IF p < 500 * UnitsPerDollar
      THEN MathRound(p, 10 * UnitsPerDollar) * 10 * UnitsPerDollar
    ELSE MathRound(p, 25 * UnitsPerDollar) * 25 * UnitsPerDollar

----------------------------------------------------------------------------
(* calculateSuggestedPrice *)

MsgWeighted == "Weighted average: 70% sold listings, 30% active listings"
MsgSoldOnly == "Based on sold listings only"
MsgActiveOnly == "Based on active listings (discounted 10%)"
MsgInsufficient == "Insufficient data for price calculation"
MsgHighCompetition == "Adjusted down 8% due to high competition"
MsgStrongDemand == "Adjusted up 5% due to strong demand"

\* the last test written >= 0, so that "no data" takes the active-only arm
BranchZeroIsData(s) ==
    IF s.avgSoldPrice > 0 /\ s.avgActivePrice > 0 THEN "weighted"
    ELSE IF s.avgSoldPrice > 0 THEN "sold"
    ELSE IF s.avgActivePrice >= 0 THEN "active"
    ELSE "none"

\* which arm of the if / else-if chain of lines 21-39 runs
Branch(s) ==
    IF s.avgSoldPrice > 0 /\ s.avgActivePrice > 0 THEN "weighted"
    ELSE IF s.avgSoldPrice > 0 THEN "sold"
    ELSE IF s.avgActivePrice > 0 THEN "active"
    ELSE "none"

\* the two weights exchanged
BasePriceSwappedWeights(s) ==
    CASE Branch(s) = "weighted" ->
           Mul(s.avgSoldPrice, 3, 10) + Mul(s.avgActivePrice, 7, 10)
      [] Branch(s) = "sold" -> s.avgSoldPrice
      [] Branch(s) = "active" -> Mul(s.avgActivePrice, 9, 10)
      [] OTHER -> UNDEFINED

BasePrice(s) ==
    CASE Branch(s) = "weighted" ->
           Mul(s.avgSoldPrice, 7, 10) + Mul(s.avgActivePrice, 3, 10)
      [] Branch(s) = "sold" -> s.avgSoldPrice
      [] Branch(s) = "active" -> Mul(s.avgActivePrice, 9, 10)
      [] OTHER -> UNDEFINED

BaseMessage(s) ==
    CASE Branch(s) = "weighted" -> MsgWeighted
      [] Branch(s) = "sold" -> MsgSoldOnly
      [] Branch(s) = "active" -> MsgActiveOnly
      [] OTHER -> MsgInsufficient

\* the terminal record graded 'medium', the initial value of confidence
InsufficientDataMedium ==
    [suggestedPrice |-> NULL,
     quickSalePrice |-> NULL,
     premiumPrice |-> NULL,
     confidence |-> "medium",
     methodology |-> <<MsgInsufficient>>,
     outlierCount |-> 0]

InsufficientData ==
    [suggestedPrice |-> NULL,
     quickSalePrice |-> NULL,
     premiumPrice |-> NULL,
     confidence |-> "low",
     methodology |-> <<MsgInsufficient>>,
     outlierCount |-> 0]

CompetitionRatio(s) ==
    IF GT(s.activeCount, 0)
      THEN IF s.soldCount.isNum THEN Ratio(s.soldCount.n, s.activeCount.n)
                                ELSE NaN
      ELSE Ratio(1, 1)

\* the thresholds taken inclusively (<= 0.3, >= 2)
MarketAdjustmentInclusive(r) ==
    IF ~RatioGT(r, 3, 10) /\ ~r.nan THEN 92
    ELSE IF ~RatioLT(r, 2, 1) /\ ~r.nan THEN 105
    ELSE 100

\* the factor in hundredths: 92, 105 or 100
MarketAdjustment(r) ==
    IF RatioLT(r, 3, 10) THEN 92
    ELSE IF RatioGT(r, 2, 1) THEN 105
    ELSE 100

AdjustmentMessages(r) ==
    IF RatioLT(r, 3, 10) THEN <<MsgHighCompetition>>
    ELSE IF RatioGT(r, 2, 1) THEN <<MsgStrongDemand>>
    ELSE <<>>

\* the factor recorded but not applied
AdjustedPriceUnadjusted(base, adj) == base

AdjustedPrice(base, adj) ==
    CASE adj = 92 -> Mul(base, 23, 25)
      [] adj = 105 -> Mul(base, 21, 20)
      [] OTHER -> base

SuggestedPrice(adjusted) == roundToNearestSensible(adjusted)

\* 15% taken off the rounded suggested price
QuickSalePriceOfSuggested(adjusted) ==
    roundToNearestSensible(Mul(roundToNearestSensible(adjusted), 17, 20))

QuickSalePrice(adjusted) == roundToNearestSensible(Mul(adjusted, 17, 20))

\* the premium computed with the quick-sale factor
PremiumPriceDiscounted(adjusted) == roundToNearestSensible(Mul(adjusted, 17, 20))

PremiumPrice(adjusted) == roundToNearestSensible(Mul(adjusted, 23, 20))

Confidence(s) ==
    IF GE(s.soldCount, 20) /\ s.dataSource = "exact" THEN "high"
    ELSE IF LT(s.soldCount, 5) \/ s.dataSource = "category" THEN "low"
    ELSE "medium"

\* Math.round(competitionRatio * 100) / 100
RoundRatio(r) ==
    IF r.nan THEN NaN ELSE Ratio(MathRound(100 * r.n, r.d), 100)

\* the contributions taken from the branch that chose the base price
PriceBreakdownOfBranch(s, r, adj) ==
    [avgSoldContribution |->
       IF Branch(s) = "sold" THEN Round2(s.avgSoldPrice)
       ELSE IF Branch(s) = "active" THEN 0
       ELSE Round2(Mul(s.avgSoldPrice, 7, 10)),
     avgActiveContribution |->
       IF Branch(s) = "active" THEN Round2(Mul(s.avgActivePrice, 9, 10))
       ELSE IF Branch(s) = "sold" THEN 0
       ELSE Round2(Mul(s.avgActivePrice, 3, 10)),
     marketAdjustment |-> adj,
     competitionRatio |-> RoundRatio(r)]

PriceBreakdown(s, r, adj) ==
    [avgSoldContribution |-> Round2(Mul(s.avgSoldPrice, 7, 10)),
     avgActiveContribution |-> Round2(Mul(s.avgActivePrice, 3, 10)),
     marketAdjustment |-> adj,
     competitionRatio |-> RoundRatio(r)]

\* the function's local variables when it returns
CalcLocals(s) ==
    IF Branch(s) = "none"
      THEN [basePrice |-> UNDEFINED]
      ELSE LET r == CompetitionRatio(s)
               adj == MarketAdjustment(r)
           IN [basePrice |-> BasePrice(s),
               competitionRatio |-> r,
               marketAdjustment |-> adj,
               adjustedPrice |-> AdjustedPrice(BasePrice(s), adj)]

calculateSuggestedPrice(s) ==
    IF Branch(s) = "none"
      THEN InsufficientData
      ELSE LET r == CompetitionRatio(s)
               adj == MarketAdjustment(r)
               adjusted == AdjustedPrice(BasePrice(s), adj)
           IN [suggestedPrice |-> SuggestedPrice(adjusted),
               quickSalePrice |-> QuickSalePrice(adjusted),
               premiumPrice |-> PremiumPrice(adjusted),
               confidence |-> Confidence(s),
               methodology |-> <<BaseMessage(s)>> \o AdjustmentMessages(r),
               outlierCount |-> 0,
               priceBreakdown |-> PriceBreakdown(s, r, adj)]

----------------------------------------------------------------------------
(* removeOutliers *)

RECURSIVE Insert(_, _)
Insert(v, s) ==
    IF s = <<>> THEN <<v>>
    ELSE IF v <= Head(s) THEN <<v>> \o s
    ELSE <<Head(s)>> \o Insert(v, Tail(s))

\* [...prices].sort((a, b) => a - b)
RECURSIVE SortAsc(_)
SortAsc(s) == IF s = <<>> THEN <<>> ELSE Insert(Head(s), SortAsc(Tail(s)))

\* a short list answered with an empty list
ShortListDropped(p) == [filtered |-> <<>>, outlierCount |-> 0]

\* a short list reported as made of outliers only
ShortListAllCounted(p) == [filtered |-> p, outlierCount |-> Len(p)]

\* the return of lines 92-94
ShortList(p) == [filtered |-> p, outlierCount |-> 0]

\* the upper bound compared strictly (p < upperBound)
WithinBoundsStrictUpper(v, q1, q3) ==
    /\ 2 * v >= 2 * q1 - 3 * (q3 - q1)
    /\ 2 * v < 2 * q3 + 3 * (q3 - q1)

\* p >= q1 - iqr * 1.5 && p <= q3 + iqr * 1.5, both sides doubled
WithinBounds(v, q1, q3) ==
    /\ 2 * v >= 2 * q1 - 3 * (q3 - q1)
    /\ 2 * v <= 2 * q3 + 3 * (q3 - q1)

removeOutliers(p) ==
    IF Len(p) < 4
      THEN ShortList(p)
      ELSE LET sorted == SortAsc(p)
               q1 == sorted[(Len(sorted) \div 4) + 1]
               q3 == sorted[((3 * Len(sorted)) \div 4) + 1]
               filtered == SelectSeq(p, LAMBDA v : WithinBounds(v, q1, q3))
           IN [filtered |-> filtered,
               outlierCount |-> Len(p) - Len(filtered)]

----------------------------------------------------------------------------
(* analyzePriceDistribution: prices in half dollars, results in cents *)

RECURSIVE Sum(_)
Sum(s) == IF s = <<>> THEN 0 ELSE Head(s) + Sum(Tail(s))

\* prices.map(p => Math.round(p)), in dollars
RoundedPrices(p) == [i \in 1..Len(p) |-> MathRound(p[i], 2)]

Count(s, v) == Cardinality({i \in 1..Len(s) : s[i] = v})

RECURSIVE Distinct(_)
Distinct(s) ==
    IF s = <<>> THEN <<>>
    ELSE LET init == SubSeq(s, 1, Len(s) - 1)
             last == s[Len(s)]
         IN IF Count(init, last) > 0 THEN Distinct(init)
            ELSE Append(Distinct(init), last)

\* the entries in the order the keys were first inserted, as a Map gives them
FrequencyEntriesInsertionOrder(r) ==
    LET keys == Distinct(r)
    IN [i \in 1..Len(keys) |-> <<keys[i], Count(r, keys[i])>>]

\* Object.entries(frequency): the keys of the frequency object are
\* non-negative integers, which an object enumerates in ascending numeric
\* order whatever the order of insertion
FrequencyEntries(r) ==
    LET keys == SortAsc(Distinct(r))
    IN [i \in 1..Len(keys) |-> <<keys[i], Count(r, keys[i])>>]

RECURSIVE InsertByCount(_, _)
InsertByCount(e, s) ==
    IF s = <<>> THEN <<e>>
    ELSE IF e[2] >= Head(s)[2] THEN <<e>> \o s
    ELSE <<Head(s)>> \o InsertByCount(e, Tail(s))

\* .sort((a, b) => b[1] - a[1]): descending count, stable
RECURSIVE SortByCountDesc(_)
SortByCountDesc(s) ==
    IF s = <<>> THEN <<>>
    ELSE InsertByCount(Head(s), SortByCountDesc(Tail(s)))

\* parseFloat(mode), in cents
ModeCents(p) == 100 * SortByCountDesc(FrequencyEntries(RoundedPrices(p)))[1][1]

\* Math.round(median * 100) / 100
MedianCents(p) ==
    LET sorted == SortAsc(p)
        mid == Len(sorted) \div 2
    IN IF Len(sorted) % 2 = 0
         THEN MathRound(100 * (sorted[mid] + sorted[mid + 1]), 4)
         ELSE MathRound(100 * sorted[mid + 1], 2)

\* the mean taken over the rounded prices
MeanCentsOfRounded(p) == MathRound(100 * Sum(RoundedPrices(p)), Len(p))

\* Math.round(mean * 100) / 100
MeanCents(p) == MathRound(100 * Sum(p), 2 * Len(p))

RECURSIVE ISqrtIn(_, _, _)
ISqrtIn(n, lo, hi) ==
    IF lo = hi THEN lo
    ELSE LET m == (lo + hi + 1) \div 2
         IN IF m * m <= n THEN ISqrtIn(n, m, hi) ELSE ISqrtIn(n, lo, m - 1)

\* the integer part of Math.sqrt(n)
ISqrt(n) == ISqrtIn(n, 0, 46340)

\* Math.round(stdDev * 100) / 100, with stdDev = sqrt(D) / (2N) dollars for
\* D = N * (sum of squares) - (sum)^2 in half dollars
StdDevCents(p) ==
    LET n == Len(p)
        d == n * Sum([i \in 1..n |-> p[i] * p[i]]) - Sum(p) * Sum(p)
    IN (ISqrt(10000 * d) + n) \div (2 * n)

analyzePriceDistribution(p) ==
    IF Len(p) = 0
      THEN [median |-> 0, mode |-> 0, stdDev |-> 0]
      ELSE [median |-> MedianCents(p),
            mode |-> ModeCents(p),
            stdDev |-> StdDevCents(p),
            mean |-> MeanCents(p)]

----------------------------------------------------------------------------
(* The POST /api/analyze handler (src/unnamed/part_001:240-359) *)

NoteLowVolume == "Low sales volume - price estimate may be less reliable"
NoteHighCompetition ==
    "High competition - many active listings compared to sales"
NoteNotExact == "Data based on ${dataSource} items - exact match not found"
NoteOutliers == "${outlierCount} outlier(s) excluded from price calculation"

\* a note: its template and the values interpolated into it
Note(text, source, count) == [text |-> text, source |-> source, count |-> count]

\* the note pushed for a count that is not negative
OutlierNotesInclusive(pa) ==
    IF pa.outlierCount >= 0
      THEN <<Note(NoteOutliers, "", pa.outlierCount)>>
      ELSE <<>>

OutlierNotes(pa) ==
    IF pa.outlierCount > 0
      THEN <<Note(NoteOutliers, "", pa.outlierCount)>>
      ELSE <<>>

\* a sentinel count makes either comparison false (NaN)
generateDataQualityNotes(e, pa) ==
    (IF LT(e.soldCount, 5) THEN <<Note(NoteLowVolume, "", 0)>> ELSE <<>>)
    \o (IF /\ e.activeCount.isNum /\ e.soldCount.isNum
           /\ e.activeCount.n > e.soldCount.n * 3
          THEN <<Note(NoteHighCompetition, "", 0)>> ELSE <<>>)
    \o (IF e.dataSource # "exact"
          THEN <<Note(NoteNotExact, e.dataSource, 0)>> ELSE <<>>)
    \o OutlierNotes(pa)

\* methodology kept in a binding of the module and appended to by every call
InvokeSharedMethodology(s, scope) ==
    LET r == calculateSuggestedPrice(s)
        m == scope \o r.methodology
    IN [result |-> [r EXCEPT !.methodology = m], ebayData |-> s, scope |-> m]

\* priceCalculator.calculateSuggestedPrice(ebayData): the value returned, the
\* argument object after the call and the values held by the mutable
\* module-level bindings of the calculator (it declares none and writes to
\* no field of its argument)
Invoke(s, scope) ==
    [result |-> calculateSuggestedPrice(s), ebayData |-> s, scope |-> scope]

----------------------------------------------------------------------------
(* The production snapshot provider (src/unnamed/part_000).  A member of the
   search result that is missing, null or 0 is 0 here: the code reads the
   members only through `x || y` and `!x`, which treat the three alike. *)

INFINITY == -3

\* the outcomes of searchEbayWithClaude
NotCalled == [kind |-> "not-called"]
Threw == [kind |-> "threw"]
NoData == [kind |-> "null"]
Data(sold, active) == [kind |-> "data", sold |-> sold, active |-> active]

\* result.sold or result.active; an absent member is read as {}
AbsentPart ==
    [present |-> FALSE, count |-> 0, avg |-> 0, low |-> 0, high |-> 0]

\* x || y on numbers
Or(x, y) == IF x # 0 THEN x ELSE y

Min(x, y) ==
    IF x = INFINITY THEN y ELSE IF y = INFINITY THEN x
    ELSE IF x < y THEN x ELSE y

Max(x, y) == IF x > y THEN x ELSE y

\* result && (result.sold || result.active)
HasData(d) == d.kind = "data" /\ (d.sold.present \/ d.active.present)

ZeroRange == [low |-> 0, high |-> 0]

\* Infinity is truthy: with no low price at all the range starts at Infinity
PriceRange(d) ==
    [low |-> Or(Min(Or(d.sold.low, INFINITY), Or(d.active.low, INFINITY)), 0),
     high |-> Or(Max(Or(d.sold.high, 0), Or(d.active.high, 0)), 0)]

UnavailableSnapshot ==
    [soldCount |-> Str("N/A"), activeCount |-> Str("N/A"),
     avgSoldPrice |-> 0, avgActivePrice |-> 0, dataSource |-> "unavailable"]

NoResultsSnapshot ==
    [soldCount |-> Num(0), activeCount |-> Num(0),
     avgSoldPrice |-> 0, avgActivePrice |-> 0, dataSource |-> "no-results"]

ErrorSnapshot ==
    [soldCount |-> Str("Error"), activeCount |-> Str("Error"),
     avgSoldPrice |-> 0, avgActivePrice |-> 0, dataSource |-> "error"]

\* each average as the search gave it, with no fallback to the other
LiveSnapshotNoFallback(d) ==
    [soldCount |-> Num(d.sold.count),
     activeCount |-> Num(d.active.count),
     avgSoldPrice |-> d.sold.avg,
     avgActivePrice |-> d.active.avg,
     dataSource |-> IF d.sold.count = 0 \/ d.sold.count < 5
                      THEN "limited" ELSE "live"]

LiveSnapshot(d) ==
    [soldCount |-> Num(Or(d.sold.count, 0)),
     activeCount |-> Num(Or(d.active.count, 0)),
     avgSoldPrice |-> Or(Or(d.sold.avg, 0), Or(d.active.avg, 0)),
     avgActivePrice |-> Or(Or(d.active.avg, 0), Or(d.sold.avg, 0)),
     dataSource |-> IF d.sold.count = 0 \/ d.sold.count < 5
                      THEN "limited" ELSE "live"]

Returns(s, range) == [rejected |-> FALSE, snapshot |-> s, priceRange |-> range]

\* the error of the search passed on to the caller
SearchFailedRethrown ==
    [rejected |-> TRUE, snapshot |-> ErrorSnapshot, priceRange |-> ZeroRange]

\* the catch block of fetchEbayData
SearchFailed == Returns(ErrorSnapshot, ZeroRange)

\* fetchEbayData from the point where the search resolved with d
SearchDone(d) ==
    IF HasData(d)
      THEN Returns(LiveSnapshot(d), PriceRange(d))
      ELSE Returns(NoResultsSnapshot, ZeroRange)

----------------------------------------------------------------------------
(* The hybrid snapshot provider (src/services/ebayService.js).  Its table
   holds whole dollars.  The substring tests the code makes on the strings
   of an identification are fields of the item here: gaming and sneaker are
   the results of the two hint tests, mentions is the set of lower-case
   terms that the string `${brand} ${itemName} ${attributes}` includes, and
   confidence counts hundredths (0 when missing). *)

Estimate(key, term, low, high, avg, sold) ==
    [key |-> key, term |-> term, low |-> low, high |-> high, avg |-> avg,
     sold |-> sold]

CategoryNames ==
    {"Gaming Consoles", "Electronics", "Clothing", "Shoes", "Footwear",
     "Collectibles", "default"}

CATEGORY_ESTIMATES ==
    [c \in CategoryNames |->
       CASE c = "Gaming Consoles" ->
              <<Estimate("Nintendo NES", "nintendo nes", 40, 120, 65, 80),
                Estimate("Nintendo SNES", "nintendo snes", 60, 150, 90, 70),
                Estimate("Nintendo 64", "nintendo 64", 50, 130, 75, 65),
                Estimate("Nintendo GameCube", "nintendo gamecube", 80, 200, 120, 55),
                Estimate("Nintendo Wii", "nintendo wii", 30, 80, 50, 90),
                Estimate("Sony PlayStation", "sony playstation", 30, 80, 45, 60),
                Estimate("Sony PlayStation 2", "sony playstation 2", 40, 100, 60, 85),
                Estimate("Sony PlayStation 3", "sony playstation 3", 60, 150, 90, 70),
                Estimate("Sony PlayStation 4", "sony playstation 4", 150, 300, 220, 100),
                Estimate("Sony PlayStation 5", "sony playstation 5", 350, 550, 450, 120),
                Estimate("Microsoft Xbox", "microsoft xbox", 40, 100, 60, 45),
                Estimate("Microsoft Xbox 360", "microsoft xbox 360", 50, 120, 75, 80),
                Estimate("Microsoft Xbox One", "microsoft xbox one", 120, 250, 180, 90),
                Estimate("Sega Genesis", "sega genesis", 30, 80, 50, 55),
                Estimate("Sega Dreamcast", "sega dreamcast", 60, 150, 90, 40),
                Estimate("default", "default", 50, 150, 80, 50)>>
         [] c = "Electronics" ->
              <<Estimate("iPhone", "iphone", 150, 800, 400, 200),
                Estimate("Samsung Galaxy", "samsung galaxy", 100, 600, 300, 150),
                Estimate("iPad", "ipad", 150, 700, 350, 180),
                Estimate("MacBook", "macbook", 300, 1500, 700, 100),
                Estimate("AirPods", "airpods", 50, 200, 120, 250),
                Estimate("default", "default", 20, 200, 80, 60)>>
         [] c = "Clothing" ->
              <<Estimate("Nike", "nike", 20, 150, 60, 120),
                Estimate("Adidas", "adidas", 15, 120, 50, 100),
                Estimate("Supreme", "supreme", 50, 500, 150, 80),
                Estimate("default", "default", 10, 100, 30, 80)>>
         [] c = "Shoes" ->
              <<Estimate("Nike", "nike", 40, 300, 100, 150),
                Estimate("Adidas", "adidas", 30, 200, 80, 130),
                Estimate("Converse", "converse", 25, 120, 55, 100),
                Estimate("Converse Gorillaz", "converse gorillaz", 150, 400, 275, 15),
                Estimate("Jordan", "jordan", 100, 500, 200, 200),
                Estimate("Yeezy", "yeezy", 150, 600, 300, 180),
                Estimate("Travis Scott", "travis scott", 200, 800, 400, 50),
                Estimate("Off-White", "off-white", 300, 1500, 600, 40),
                Estimate("default", "default", 25, 150, 60, 90)>>
         [] c = "Footwear" ->
              <<Estimate("Nike", "nike", 40, 300, 100, 150),
                Estimate("Converse", "converse", 25, 120, 55, 100),
                Estimate("default", "default", 25, 150, 60, 90)>>
         [] c = "Collectibles" ->
              <<Estimate("Pokemon", "pokemon", 5, 500, 50, 200),
                Estimate("Funko", "funko", 10, 100, 25, 180),
                Estimate("default", "default", 20, 500, 100, 60)>>
         [] c = "default" ->
              <<Estimate("default", "default", 15, 150, 50, 50)>>]

CollaborationPatterns ==
    <<[pattern |-> "gorillaz", key |-> "Converse Gorillaz"],
      [pattern |-> "travis scott", key |-> "Travis Scott"],
      [pattern |-> "off-white", key |-> "Off-White"],
      [pattern |-> "yeezy", key |-> "Yeezy"],
      [pattern |-> "supreme", key |-> "Supreme"]>>

\* the categories whose lower-case name includes 'shoe' or 'footwear'
ShoeCategories == {"Shoes", "Footwear", "Running Shoes"}

\* the least index of the sequence that satisfies the test, 0 if none does
First(s, Test(_)) ==
    IF \E i \in 1..Len(s) : Test(s[i])
      THEN CHOOSE i \in 1..Len(s) :
             Test(s[i]) /\ \A j \in 1..(i - 1) : ~Test(s[j])
      ELSE 0

HasKey(data, key) == \E i \in 1..Len(data) : data[i].key = key

Entry(data, key) == data[CHOOSE i \in 1..Len(data) : data[i].key = key]

\* the table entry getEstimatedPricing settles on
EstimateFor(it) ==
    LET category == IF it.category = "" THEN "default" ELSE it.category
        named == IF category \in CategoryNames THEN category ELSE "default"
        gaming == IF it.gaming THEN "Gaming Consoles" ELSE named
        chosen == IF category \in ShoeCategories \/ it.sneaker
                    THEN "Shoes" ELSE gaming
        categoryData == CATEGORY_ESTIMATES[chosen]
        IsCollab(c) == c.pattern \in it.mentions /\ HasKey(categoryData, c.key)
        IsBrand(e) == e.key # "default" /\ e.term \in it.mentions
        collab == First(CollaborationPatterns, IsCollab)
        brand == First(categoryData, IsBrand)
    IN IF collab # 0 THEN Entry(categoryData, CollaborationPatterns[collab].key)
       ELSE IF brand # 0 THEN categoryData[brand]
       ELSE Entry(categoryData, "default")

\* variance = 1 + (1 - confidence) * 0.2 = (600 - c) / 500
getEstimatedPricing(it) ==
    LET estimate == EstimateFor(it)
        c == IF it.confidence = 0 THEN 70 ELSE it.confidence
    IN [low |-> MathRound(500 * estimate.low, 600 - c),
        high |-> MathRound(estimate.high * (600 - c), 500),
        avg |-> estimate.avg,
        sold |-> Or(estimate.sold, 50)]

\* four active listings for every sale
EstimatedSnapshotManyActive(e) ==
    [soldCount |-> Num(e.sold),
     activeCount |-> Num(4 * e.sold),
     avgSoldPrice |-> e.avg * UnitsPerDollar,
     avgActivePrice |-> MathRound(11 * e.avg, 10) * UnitsPerDollar,
     dataSource |-> "estimated"]

EstimatedSnapshot(e) ==
    [soldCount |-> Num(e.sold),
     activeCount |-> Num(MathRound(6 * e.sold, 5)),
     avgSoldPrice |-> e.avg * UnitsPerDollar,
     avgActivePrice |-> MathRound(11 * e.avg, 10) * UnitsPerDollar,
     dataSource |-> "estimated"]

EstimatedRange(e) ==
    [low |-> e.low * UnitsPerDollar, high |-> e.high * UnitsPerDollar]

\* the object built from the search data; no statement returns it
baseData(d) ==
    [soldCount |-> IF d.sold.count # 0 THEN Num(d.sold.count)
                                       ELSE Str("Unknown"),
     activeCount |-> IF d.active.count # 0 THEN Num(d.active.count)
                                           ELSE Str("Unknown"),
     avgSoldPrice |-> Or(Or(d.sold.avg, 0), Or(d.active.avg, 0)),
     avgActivePrice |-> Or(Or(d.active.avg, 0), Or(d.sold.avg, 0)),
     dataSource |-> IF d.sold.count = 0 \/ d.sold.count < 5
                      THEN "similar" ELSE "exact"]

\* the hybrid fetchEbayData from the point where the search, if any, is over
FallbackToEstimates(it) ==
    Returns(EstimatedSnapshot(getEstimatedPricing(it)),
            EstimatedRange(getEstimatedPricing(it)))

----------------------------------------------------------------------------
(* One POST /api/analyze request followed through the handler
   (src/unnamed/part_001:240-321) with the production provider *)

\* upload.array('images', 5)
MaxFiles == 5

\* the ways analyzeImages rejects
VisionErrors ==
    {"key not configured", "empty response", "unparsable response",
     "invalid key", "rate limit", "analysis failed"}

\* the awaited call resolved with an error value and the handler went on
RejectionIgnored(cause) == [pc |-> "fetching", failure |-> cause]

\* a rejected await lands in the catch block of the handler
Rejection(cause) == [pc |-> "caught", failure |-> cause]

\* the response sent without waiting for the cleanup loop
CleanedUpNever(n, done) == TRUE

\* the cleanup loop has gone through the n uploaded files
CleanedUp(n, done) == done = 1..n

----------------------------------------------------------------------------
(* analyzeImages (src/services/priceCalculator.js:191-327): the confidence
   of the returned identification, in hundredths *)

\* parsed.confidence: missing, or a number
NotParsed == [present |-> FALSE, value |-> 0]

\* the upper end only: Math.min(1, parsed.confidence || 0.5)
ClampConfidenceNoFloor(p) ==
    Min(100, IF p.present /\ p.value # 0 THEN p.value ELSE 50)

\* Math.min(1, Math.max(0, parsed.confidence || 0.5))
ClampConfidence(p) ==
    Min(100, Max(0, IF p.present /\ p.value # 0 THEN p.value ELSE 50))

----------------------------------------------------------------------------
(* The browser UI (class ResaleAnalyzer, src/unnamed/part_001:381-537) and
   the upload limit of the server.  A file is its size in megabytes. *)

\* 5 - this.selectedFiles.length
MaxSelected == 5

\* file.size > 10 * 1024 * 1024
MaxFileMB == 10

\* the limit applied to every batch instead of to the selection
RemainingPerBatch(selected) == MaxSelected

Remaining(selected) == MaxSelected - Len(selected)

\* files.slice(0, remaining)
Slice(files, n) == SubSeq(files, 1, IF n < Len(files) THEN n ELSE Len(files))

RECURSIVE PushAllowed(_, _)
\* toAdd.forEach: a file over the size limit is reported and left out
PushAllowed(selected, toAdd) ==
    IF toAdd = <<>> THEN selected
    ELSE PushAllowed(IF Head(toAdd) > MaxFileMB
                       THEN selected
                       ELSE Append(selected, Head(toAdd)),
                     Tail(toAdd))

\* selectedFiles.splice(index, 1), index counted from 0
Splice(selected, index) ==
    SubSeq(selected, 1, index) \o SubSeq(selected, index + 2, Len(selected))

\* upload.array('images', 5): a request with more files is refused
MulterAccepts(n) == n <= MaxFiles

----------------------------------------------------------------------------
(* Inputs *)

MaxPriceExp == 4
MaxSold == 21
MaxActive == 10
MaxCents == 52600

RECURSIVE Pow3(_)
Pow3(k) == IF k = 0 THEN 1 ELSE 3 * Pow3(k - 1)

\* 0 ("no data") and 7.50, 22.50, 67.50, 202.50, 607.50, ... dollars
AvgPrices == {0} \cup {30 * Quarter * Pow3(k) : k \in 0..MaxPriceExp}

Sentinels == {Str("Unknown"), Str("N/A"), Str("Error")}
SoldCounts == {Num(n) : n \in 0..MaxSold} \cup Sentinels
ActiveCounts == {Num(n) : n \in 0..MaxActive} \cup Sentinels

DataSources ==
    {"live", "exact-match", "limited", "similar-items", "category-estimate",
     "estimated", "no-results", "error", "unavailable",
     "exact", "similar", "category"}

Snapshots ==
    [soldCount : SoldCounts,
     activeCount : ActiveCounts,
     avgSoldPrice : AvgPrices,
     avgActivePrice : AvgPrices,
     dataSource : DataSources]

\* price lists of up to MaxListLen prices: 1, 2, ... dollars and 100 dollars
MaxListLen == 5
MaxListPrice == 4

RECURSIVE SeqsUpTo(_, _)
SeqsUpTo(S, n) ==
    IF n = 0 THEN {<<>>}
    ELSE LET shorter == SeqsUpTo(S, n - 1)
         IN shorter \cup {Append(s, v) : s \in shorter, v \in S}

OutlierPrices == {2 * k : k \in 1..MaxListPrice} \cup {200}

\* 9.50, 10, 19.50, 20, 29.50, 30, ... dollars
MaxDistTens == 3
MaxDistLen == 4
DistPrices == {20 * k - j : k \in 1..MaxDistTens, j \in 0..1}

\* the worked example (100 and 80 dollars, 10 sold, 40 active, exact-match)
\* and the snapshots that differ from it in counts or data source
ExampleSnapshot ==
    [soldCount |-> Num(10), activeCount |-> Num(40),
     avgSoldPrice |-> 100 * UnitsPerDollar,
     avgActivePrice |-> 80 * UnitsPerDollar,
     dataSource |-> "exact-match"]

ExampleSnapshots ==
    [soldCount : SoldCounts,
     activeCount : ActiveCounts \cup {Num(40)},
     avgSoldPrice : {100 * UnitsPerDollar},
     avgActivePrice : {80 * UnitsPerDollar},
     dataSource : DataSources]

\* concurrent requests and the snapshots fetchEbayData may resolve with:
\* every base-price branch, every adjustment, a sentinel soldCount
MaxRequests == 2
Requests == 1..MaxRequests

RequestSnapshots ==
    [soldCount : {Num(2), Num(21), Str("Unknown")},
     activeCount : {Num(0), Num(10)},
     avgSoldPrice : {0, 90 * Quarter},
     avgActivePrice : {0, 270 * Quarter},
     dataSource : {"exact", "live"}]

\* what a search may resolve with: no JSON at all, or an object whose sold
\* and active members are absent or hold a count, an average and a range
SearchParts ==
    {AbsentPart} \cup
    [present : {TRUE}, count : {0, 3, 5, 12},
     avg : {0, 90 * Quarter, 270 * Quarter},
     low : {0, 60 * Quarter}, high : {0, 400 * Quarter}]

SearchResults ==
    {NoData} \cup {Data(sold, active) : sold \in SearchParts, active \in SearchParts}

\* identifications given to the hybrid provider: a known, an unknown, a
\* shoe-like and a missing category, and brand or collaboration mentions
ItemCategories ==
    {"", "Gaming Consoles", "Electronics", "Clothing", "Shoes", "Footwear",
     "Collectibles", "Books", "Running Shoes"}

ItemMentions ==
    {{}, {"nintendo nes"}, {"nintendo snes"}, {"nintendo 64"},
     {"nintendo gamecube"}, {"nintendo wii"}, {"sony playstation"},
     {"sony playstation", "sony playstation 2"},
     {"sony playstation", "sony playstation 3"},
     {"sony playstation", "sony playstation 4"},
     {"sony playstation", "sony playstation 5"}, {"microsoft xbox"},
     {"microsoft xbox", "microsoft xbox 360"},
     {"microsoft xbox", "microsoft xbox one"}, {"sega genesis"},
     {"sega dreamcast"}, {"iphone"}, {"samsung galaxy"}, {"ipad"},
     {"macbook"}, {"airpods"}, {"nike"}, {"adidas"}, {"supreme"},
     {"converse"}, {"converse", "gorillaz", "converse gorillaz"},
     {"jordan"}, {"yeezy"}, {"travis scott"}, {"off-white"}, {"pokemon"},
     {"funko"}, {"gorillaz"}, {"converse", "gorillaz"},
     {"nike", "supreme"}, {"nike", "jordan"}, {"adidas", "yeezy"},
     {"nike", "travis scott"}, {"nike", "off-white"}}

ItemConfidences == {0, 50, 70, 85, 100}

Items ==
    [category : ItemCategories, gaming : BOOLEAN, sneaker : BOOLEAN,
     mentions : ItemMentions, confidence : ItemConfidences]

SoldPart ==
    [present |-> TRUE, count |-> 12, avg |-> 270 * Quarter,
     low |-> 60 * Quarter, high |-> 400 * Quarter]

ActivePart ==
    [present |-> TRUE, count |-> 30, avg |-> 90 * Quarter,
     low |-> 60 * Quarter, high |-> 400 * Quarter]

HybridSearchResults ==
    {NoData, Data(AbsentPart, AbsentPart), Data(SoldPart, AbsentPart),
     Data(AbsentPart, ActivePart), Data(SoldPart, ActivePart),
     Data([SoldPart EXCEPT !.count = 3], ActivePart)}

NoItem == [category |-> ""]

\* what the search of a followed request may resolve with
LifecycleSearchResults ==
    {NoData, Data(SoldPart, ActivePart), Data(AbsentPart, ActivePart)}

\* confidences the vision model may answer: -2.00 .. 2.00, or none
MaxConfidence == 200

ParsedConfidences ==
    {NotParsed} \cup
    [present : {TRUE}, value : (0 - MaxConfidence)..MaxConfidence]

\* files picked or dropped at once: up to MaxBatch files of 1, 5, 10 or 11 MB
MaxBatch == 3

FileSizes == {1, 5, MaxFileMB, MaxFileMB + 1}

NoResult == [methodology |-> <<>>]
NoOutliers == [filtered |-> <<>>, outlierCount |-> 0]
NoDist == [median |-> 0]

NoRequests == <<>>

\* the provider variables in the specifications that do not run a provider
ProviderIdle ==
    /\ client = FALSE /\ search = NotCalled /\ calls = 0
    /\ priceRange = ZeroRange /\ item = NoItem

\* the request variables in the specifications that do not follow one request
LifecycleIdle ==
    /\ upload = 0 /\ unlinked = {} /\ responses = <<>>
    /\ steps = <<>> /\ failure = "none"

\* the identification variables in the specifications that identify nothing
ImageIdle ==
    /\ parsed = NotParsed /\ confidence = 50

\* the browser variables in the specifications without a browser
UiIdle ==
    /\ selectedFiles = <<>> /\ analyzeDisabled = TRUE
    /\ posted = 0 /\ accepted = FALSE

NoSnapshot ==
    [soldCount |-> Num(0), activeCount |-> Num(0), avgSoldPrice |-> 0,
     avgActivePrice |-> 0, dataSource |-> "unavailable"]

----------------------------------------------------------------------------
(* One call of calculateSuggestedPrice on an arbitrary snapshot *)

Init ==
    /\ snapshot \in Snapshots
    /\ result = NoResult
    /\ locals = [basePrice |-> UNDEFINED]
    /\ price = 0
    /\ rounded = NULL
    /\ rerounded = NULL
    /\ prices = <<>> /\ outl = NoOutliers /\ outl2 = NoOutliers
    /\ dist = NoDist
    /\ reqs = NoRequests /\ moduleScope = <<>>
    /\ pc = "start"
    /\ ProviderIdle
    /\ LifecycleIdle
    /\ ImageIdle
    /\ UiIdle

Calculate ==
    /\ pc = "start"
    /\ result' = calculateSuggestedPrice(snapshot)
    /\ locals' = CalcLocals(snapshot)
    /\ pc' = "done"
    /\ UNCHANGED <<snapshot, roundVars, listVars, serverVars, providerVars, lifecycleVars, imageVars, uiVars>>

Next == Calculate

Spec == Init /\ [][Next]_vars

----------------------------------------------------------------------------
(* One call of calculateSuggestedPrice on the worked example or a variant *)

InitExample ==
    /\ snapshot \in ExampleSnapshots
    /\ result = NoResult
    /\ locals = [basePrice |-> UNDEFINED]
    /\ price = 0
    /\ rounded = NULL
    /\ rerounded = NULL
    /\ prices = <<>> /\ outl = NoOutliers /\ outl2 = NoOutliers
    /\ dist = NoDist
    /\ reqs = NoRequests /\ moduleScope = <<>>
    /\ pc = "start"
    /\ ProviderIdle
    /\ LifecycleIdle
    /\ ImageIdle
    /\ UiIdle

SpecExample == InitExample /\ [][Next]_vars

----------------------------------------------------------------------------
(* roundToNearestSensible applied to a price, then to its own result *)

InitRound ==
    /\ price \in {c * Cent : c \in 0..MaxCents}
    /\ rounded = NULL
    /\ rerounded = NULL
    /\ snapshot = NoSnapshot
    /\ result = NoResult
    /\ locals = [basePrice |-> UNDEFINED]
    /\ prices = <<>> /\ outl = NoOutliers /\ outl2 = NoOutliers
    /\ dist = NoDist
    /\ reqs = NoRequests /\ moduleScope = <<>>
    /\ pc = "round"
    /\ ProviderIdle
    /\ LifecycleIdle
    /\ ImageIdle
    /\ UiIdle

Round ==
    /\ pc = "round"
    /\ rounded' = roundToNearestSensible(price)
    /\ pc' = "again"
    /\ UNCHANGED <<calcVars, price, rerounded, listVars, serverVars, providerVars, lifecycleVars, imageVars, uiVars>>

RoundAgain ==
    /\ pc = "again"
    /\ rerounded' = roundToNearestSensible(rounded)
    /\ pc' = "rounded"
    /\ UNCHANGED <<calcVars, price, rounded, listVars, serverVars, providerVars, lifecycleVars, imageVars, uiVars>>

NextRound == Round \/ RoundAgain

SpecRound == InitRound /\ [][NextRound]_vars

----------------------------------------------------------------------------
(* removeOutliers applied to a price list, then to its own filtered list *)

InitOutliers ==
    /\ prices \in SeqsUpTo(OutlierPrices, MaxListLen)
    /\ outl = NoOutliers
    /\ outl2 = NoOutliers
    /\ dist = NoDist
    /\ snapshot = NoSnapshot
    /\ result = NoResult
    /\ locals = [basePrice |-> UNDEFINED]
    /\ price = 0
    /\ rounded = NULL
    /\ rerounded = NULL
    /\ reqs = NoRequests /\ moduleScope = <<>>
    /\ pc = "filter"
    /\ ProviderIdle
    /\ LifecycleIdle
    /\ ImageIdle
    /\ UiIdle

Filter ==
    /\ pc = "filter"
    /\ outl' = removeOutliers(prices)
    /\ pc' = "refilter"
    /\ UNCHANGED <<calcVars, roundVars, prices, outl2, dist, serverVars, providerVars, lifecycleVars, imageVars, uiVars>>

FilterAgain ==
    /\ pc = "refilter"
    /\ outl2' = removeOutliers(outl.filtered)
    /\ pc' = "filtered"
    /\ UNCHANGED <<calcVars, roundVars, prices, outl, dist, serverVars, providerVars, lifecycleVars, imageVars, uiVars>>

NextOutliers == Filter \/ FilterAgain

SpecOutliers == InitOutliers /\ [][NextOutliers]_vars

----------------------------------------------------------------------------
(* analyzePriceDistribution applied to a price list *)

InitDist ==
    /\ prices \in SeqsUpTo(DistPrices, MaxDistLen)
    /\ dist = NoDist
    /\ outl = NoOutliers
    /\ outl2 = NoOutliers
    /\ snapshot = NoSnapshot
    /\ result = NoResult
    /\ locals = [basePrice |-> UNDEFINED]
    /\ price = 0
    /\ rounded = NULL
    /\ rerounded = NULL
    /\ reqs = NoRequests /\ moduleScope = <<>>
    /\ pc = "analyze"
    /\ ProviderIdle
    /\ LifecycleIdle
    /\ ImageIdle
    /\ UiIdle

Analyze ==
    /\ pc = "analyze"
    /\ dist' = analyzePriceDistribution(prices)
    /\ pc' = "analyzed"
    /\ UNCHANGED <<calcVars, roundVars, prices, outl, outl2, serverVars, providerVars, lifecycleVars, imageVars, uiVars>>

NextDist == Analyze

SpecDist == InitDist /\ [][NextDist]_vars

----------------------------------------------------------------------------
(* Concurrent POST /api/analyze requests.  A handler runs until its next
   await, so its steps are: up to the call of analyzeImages, from there to
   the call of fetchEbayData, and from there to the response. *)

IdleRequest ==
    [pc |-> "idle", fetched |-> NoSnapshot, ebayData |-> NoSnapshot,
     priceAnalysis |-> NoResult, notes |-> <<>>]

InitServer ==
    /\ reqs = [r \in Requests |-> IdleRequest]
    /\ moduleScope = <<>>
    /\ snapshot = NoSnapshot
    /\ result = NoResult
    /\ locals = [basePrice |-> UNDEFINED]
    /\ price = 0
    /\ rounded = NULL
    /\ rerounded = NULL
    /\ prices = <<>> /\ outl = NoOutliers /\ outl2 = NoOutliers
    /\ dist = NoDist
    /\ pc = "serve"
    /\ ProviderIdle
    /\ LifecycleIdle
    /\ ImageIdle
    /\ UiIdle

\* no file uploaded: 400
Reject(r) ==
    /\ reqs[r].pc = "idle"
    /\ reqs' = [reqs EXCEPT ![r].pc = "rejected"]
    /\ UNCHANGED <<calcVars, roundVars, listVars, pc, moduleScope, providerVars, lifecycleVars, imageVars, uiVars>>

\* files uploaded: analyzeImages is called and awaited
Receive(r) ==
    /\ reqs[r].pc = "idle"
    /\ reqs' = [reqs EXCEPT ![r].pc = "identifying"]
    /\ UNCHANGED <<calcVars, roundVars, listVars, pc, moduleScope, providerVars, lifecycleVars, imageVars, uiVars>>

\* the identification arrives: fetchEbayData is called and awaited
Identified(r) ==
    /\ reqs[r].pc = "identifying"
    /\ reqs' = [reqs EXCEPT ![r].pc = "fetching"]
    /\ UNCHANGED <<calcVars, roundVars, listVars, pc, moduleScope, providerVars, lifecycleVars, imageVars, uiVars>>

\* the snapshot arrives: the price is calculated, the result compiled with
\* its data quality notes, and the response sent
Fetched(r) ==
    /\ reqs[r].pc = "fetching"
    /\ \E s \in RequestSnapshots :
         LET call == Invoke(s, moduleScope)
         IN /\ reqs' = [reqs EXCEPT ![r] =
                  [pc |-> "responded",
                   fetched |-> s,
                   ebayData |-> call.ebayData,
                   priceAnalysis |-> call.result,
                   notes |-> generateDataQualityNotes(call.ebayData,
                                                      call.result)]]
            /\ moduleScope' = call.scope
    /\ UNCHANGED <<calcVars, roundVars, listVars, pc, providerVars, lifecycleVars, imageVars, uiVars>>

\* an awaited call rejects: the catch block answers 500
Failed(r) ==
    /\ reqs[r].pc \in {"identifying", "fetching"}
    /\ reqs' = [reqs EXCEPT ![r].pc = "failed"]
    /\ UNCHANGED <<calcVars, roundVars, listVars, pc, moduleScope, providerVars, lifecycleVars, imageVars, uiVars>>

NextServer ==
    \E r \in Requests :
      Reject(r) \/ Receive(r) \/ Identified(r) \/ Fetched(r) \/ Failed(r)

SpecServer == InitServer /\ [][NextServer]_vars

----------------------------------------------------------------------------
(* The production provider's fetchEbayData, then calculateSuggestedPrice on
   the snapshot it returned *)

InitProduction ==
    /\ client \in BOOLEAN
    /\ search = NotCalled
    /\ calls = 0
    /\ priceRange = ZeroRange
    /\ item = NoItem
    /\ snapshot = NoSnapshot
    /\ result = NoResult
    /\ locals = [basePrice |-> UNDEFINED]
    /\ price = 0
    /\ rounded = NULL
    /\ rerounded = NULL
    /\ prices = <<>> /\ outl = NoOutliers /\ outl2 = NoOutliers
    /\ dist = NoDist
    /\ reqs = NoRequests /\ moduleScope = <<>>
    /\ pc = "fetch"
    /\ LifecycleIdle
    /\ ImageIdle
    /\ UiIdle

\* no client configured: the 'unavailable' snapshot, no search
FetchWithoutClient ==
    /\ pc = "fetch"
    /\ ~client
    /\ snapshot' = UnavailableSnapshot
    /\ priceRange' = ZeroRange
    /\ pc' = "start"
    /\ UNCHANGED <<result, locals, roundVars, listVars, serverVars,
                   client, search, calls, item, lifecycleVars, imageVars, uiVars>>

\* searchEbayWithClaude is called and awaited
CallSearch ==
    /\ pc = "fetch"
    /\ client
    /\ calls' = calls + 1
    /\ pc' = "searching"
    /\ UNCHANGED <<calcVars, roundVars, listVars, serverVars,
                   client, search, priceRange, item, lifecycleVars, imageVars, uiVars>>

\* the search resolves, with parsed data or with null
SearchResolved ==
    /\ pc = "searching"
    /\ \E d \in SearchResults :
         /\ search' = d
         /\ snapshot' = SearchDone(d).snapshot
         /\ priceRange' = SearchDone(d).priceRange
    /\ pc' = "start"
    /\ UNCHANGED <<result, locals, roundVars, listVars, serverVars,
                   client, calls, item, lifecycleVars, imageVars, uiVars>>

\* the search rejects (it logs the API error and throws it again)
SearchThrew ==
    /\ pc = "searching"
    /\ search' = Threw
    /\ IF SearchFailed.rejected
         THEN pc' = "rejected" /\ UNCHANGED <<snapshot, priceRange, lifecycleVars, imageVars, uiVars>>
         ELSE /\ pc' = "start"
              /\ snapshot' = SearchFailed.snapshot
              /\ priceRange' = SearchFailed.priceRange
    /\ UNCHANGED <<result, locals, roundVars, listVars, serverVars,
                   client, calls, item, lifecycleVars, imageVars, uiVars>>

NextProduction ==
    FetchWithoutClient \/ CallSearch \/ SearchResolved \/ SearchThrew
      \/ Calculate

SpecProduction == InitProduction /\ [][NextProduction]_vars

----------------------------------------------------------------------------
(* The hybrid provider's fetchEbayData, then calculateSuggestedPrice on the
   snapshot it returned *)

InitHybrid ==
    /\ client \in BOOLEAN
    /\ item \in Items
    /\ search = NotCalled
    /\ calls = 0
    /\ priceRange = ZeroRange
    /\ snapshot = NoSnapshot
    /\ result = NoResult
    /\ locals = [basePrice |-> UNDEFINED]
    /\ price = 0
    /\ rounded = NULL
    /\ rerounded = NULL
    /\ prices = <<>> /\ outl = NoOutliers /\ outl2 = NoOutliers
    /\ dist = NoDist
    /\ reqs = NoRequests /\ moduleScope = <<>>
    /\ pc = "fetch"
    /\ LifecycleIdle
    /\ ImageIdle
    /\ UiIdle

\* no client configured: straight to the estimates
EstimateWithoutClient ==
    /\ pc = "fetch"
    /\ ~client
    /\ snapshot' = FallbackToEstimates(item).snapshot
    /\ priceRange' = FallbackToEstimates(item).priceRange
    /\ pc' = "start"
    /\ UNCHANGED <<result, locals, roundVars, listVars, serverVars,
                   client, search, calls, item, lifecycleVars, imageVars, uiVars>>

\* searchEbayWithClaude is called and awaited
CallCombinedSearch ==
    /\ pc = "fetch"
    /\ client
    /\ calls' = calls + 1
    /\ pc' = "searching"
    /\ UNCHANGED <<calcVars, roundVars, listVars, serverVars,
                   client, search, priceRange, item, lifecycleVars, imageVars, uiVars>>

\* the search resolves with parsed data or, also after an API error, with
\* null; baseData is built inside the if block and left there, and the
\* function goes on to the estimates
CombinedSearchResolved ==
    /\ pc = "searching"
    /\ \E d \in HybridSearchResults :
         /\ search' = d
         /\ LET built == IF HasData(d) THEN baseData(d) ELSE NoSnapshot
            IN /\ snapshot' = FallbackToEstimates(item).snapshot
               /\ priceRange' = FallbackToEstimates(item).priceRange
    /\ pc' = "start"
    /\ UNCHANGED <<result, locals, roundVars, listVars, serverVars,
                   client, calls, item, lifecycleVars, imageVars, uiVars>>

NextHybrid ==
    EstimateWithoutClient \/ CallCombinedSearch \/ CombinedSearchResolved
      \/ Calculate

SpecHybrid == InitHybrid /\ [][NextHybrid]_vars

----------------------------------------------------------------------------
(* One request from the upload to the response.  The handler is cut at its
   awaits and, inside its synchronous stretches, at the calls it makes. *)

InitLifecycle ==
    /\ upload \in 0..MaxFiles
    /\ client \in BOOLEAN
    /\ unlinked = {}
    /\ responses = <<>>
    /\ steps = <<>>
    /\ failure = "none"
    /\ search = NotCalled
    /\ calls = 0
    /\ priceRange = ZeroRange
    /\ item = NoItem
    /\ snapshot = NoSnapshot
    /\ result = NoResult
    /\ locals = [basePrice |-> UNDEFINED]
    /\ price = 0
    /\ rounded = NULL
    /\ rerounded = NULL
    /\ prices = <<>> /\ outl = NoOutliers /\ outl2 = NoOutliers
    /\ dist = NoDist
    /\ reqs = NoRequests /\ moduleScope = <<>>
    /\ pc = "handler"
    /\ ImageIdle
    /\ UiIdle

\* no file: 400, nothing else happens
RespondNoImages ==
    /\ pc = "handler"
    /\ upload = 0
    /\ responses' = Append(responses, 400)
    /\ pc' = "responded"
    /\ UNCHANGED <<calcVars, roundVars, listVars, serverVars, providerVars,
                   upload, unlinked, steps, failure, imageVars, uiVars>>

\* step 1: analyzeImages is called and awaited
CallAnalyzeImages ==
    /\ pc = "handler"
    /\ upload > 0
    /\ steps' = Append(steps, "analyzeImages")
    /\ pc' = "identifying"
    /\ UNCHANGED <<calcVars, roundVars, listVars, serverVars, providerVars,
                   upload, unlinked, responses, failure, imageVars, uiVars>>

\* analyzeImages rejects
AnalyzeImagesRejected ==
    /\ pc = "identifying"
    /\ \E cause \in VisionErrors :
         /\ pc' = Rejection(cause).pc
         /\ failure' = Rejection(cause).failure
    /\ UNCHANGED <<calcVars, roundVars, listVars, serverVars, providerVars,
                   upload, unlinked, responses, steps, imageVars, uiVars>>

\* step 2: the identification arrived, fetchEbayData is called and awaited
CallFetchEbayData ==
    /\ pc = "identifying"
    /\ steps' = Append(steps, "fetchEbayData")
    /\ pc' = "fetching"
    /\ UNCHANGED <<calcVars, roundVars, listVars, serverVars, providerVars,
                   upload, unlinked, responses, failure, imageVars, uiVars>>

\* fetchEbayData rejects before its own try block (buildSearchQuery throws
\* on an identification whose brand is not a string)
FetchEbayDataRejected ==
    /\ pc = "fetching"
    /\ pc' = Rejection("query not built").pc
    /\ failure' = Rejection("query not built").failure
    /\ UNCHANGED <<calcVars, roundVars, listVars, serverVars, providerVars,
                   upload, unlinked, responses, steps, imageVars, uiVars>>

\* fetchEbayData resolves: without a client, after a search that resolved,
\* or after a search that threw (the provider's catch block)
FetchEbayDataResolved ==
    /\ pc = "fetching"
    /\ IF ~client
         THEN /\ snapshot' = UnavailableSnapshot
              /\ priceRange' = ZeroRange
              /\ UNCHANGED <<search, calls, imageVars, uiVars>>
         ELSE /\ calls' = calls + 1
              /\ \E d \in LifecycleSearchResults \cup {Threw} :
                   LET r == IF d = Threw THEN SearchFailed ELSE SearchDone(d)
                   IN /\ search' = d
                      /\ snapshot' = r.snapshot
                      /\ priceRange' = r.priceRange
    /\ pc' = "start"
    /\ UNCHANGED <<result, locals, roundVars, listVars, serverVars,
                   client, item, lifecycleVars, imageVars, uiVars>>

\* the files are unlinked one after the other, errors ignored
Unlink ==
    /\ pc \in {"done", "caught"}
    /\ ~CleanedUp(upload, unlinked)
    /\ unlinked' = unlinked \cup {Cardinality(unlinked) + 1}
    /\ UNCHANGED <<calcVars, roundVars, listVars, serverVars, providerVars,
                   pc, upload, responses, steps, failure, imageVars, uiVars>>

\* res.json(result)
RespondResult ==
    /\ pc = "done"
    /\ CleanedUp(upload, unlinked)
    /\ responses' = Append(responses, 200)
    /\ pc' = "responded"
    /\ UNCHANGED <<calcVars, roundVars, listVars, serverVars, providerVars,
                   upload, unlinked, steps, failure, imageVars, uiVars>>

\* res.status(500).json({ error, message })
RespondError ==
    /\ pc = "caught"
    /\ CleanedUp(upload, unlinked)
    /\ responses' = Append(responses, 500)
    /\ pc' = "responded"
    /\ UNCHANGED <<calcVars, roundVars, listVars, serverVars, providerVars,
                   upload, unlinked, steps, failure, imageVars, uiVars>>

\* step 3 is Calculate
NextLifecycle ==
    \/ RespondNoImages \/ CallAnalyzeImages \/ AnalyzeImagesRejected
    \/ CallFetchEbayData \/ FetchEbayDataRejected \/ FetchEbayDataResolved
    \/ Calculate \/ Unlink \/ RespondResult \/ RespondError

SpecLifecycle == InitLifecycle /\ [][NextLifecycle]_vars

\* every awaited call settles and every ready continuation is run
SpecLifecycleFair == SpecLifecycle /\ WF_vars(NextLifecycle)

----------------------------------------------------------------------------
(* analyzeImages from the parsed answer of the vision model to the returned
   identification *)

InitIdentify ==
    /\ parsed \in ParsedConfidences
    /\ confidence = 50
    /\ snapshot = NoSnapshot
    /\ result = NoResult
    /\ locals = [basePrice |-> UNDEFINED]
    /\ price = 0
    /\ rounded = NULL
    /\ rerounded = NULL
    /\ prices = <<>> /\ outl = NoOutliers /\ outl2 = NoOutliers
    /\ dist = NoDist
    /\ reqs = NoRequests /\ moduleScope = <<>>
    /\ ProviderIdle
    /\ LifecycleIdle
    /\ pc = "parsed"
    /\ UiIdle

Identify ==
    /\ pc = "parsed"
    /\ confidence' = ClampConfidence(parsed)
    /\ pc' = "identified"
    /\ UNCHANGED <<calcVars, roundVars, listVars, serverVars, providerVars,
                   lifecycleVars, parsed, uiVars>>

NextIdentify == Identify

SpecIdentify == InitIdentify /\ [][NextIdentify]_vars

----------------------------------------------------------------------------
(* The upload form of the browser UI.  Whether the Analyze button starts
   disabled is decided by the page markup, which is not part of the script. *)

InitUi ==
    /\ selectedFiles = <<>>
    /\ analyzeDisabled \in BOOLEAN
    /\ posted = 0
    /\ accepted = FALSE
    /\ snapshot = NoSnapshot
    /\ result = NoResult
    /\ locals = [basePrice |-> UNDEFINED]
    /\ price = 0
    /\ rounded = NULL
    /\ rerounded = NULL
    /\ prices = <<>> /\ outl = NoOutliers /\ outl2 = NoOutliers
    /\ dist = NoDist
    /\ reqs = NoRequests /\ moduleScope = <<>>
    /\ ProviderIdle
    /\ LifecycleIdle
    /\ ImageIdle
    /\ pc = "loaded"

\* handleFileSelect / handleDrop: addFiles, then updatePreviews
AddFiles ==
    /\ pc \in {"loaded", "ready"}
    /\ \E files \in SeqsUpTo(FileSizes, MaxBatch) :
         LET toAdd == Slice(files, Remaining(selectedFiles))
             pushed == PushAllowed(selectedFiles, toAdd)
         IN /\ selectedFiles' = pushed
            /\ analyzeDisabled' = (Len(pushed) = 0)
    /\ pc' = "ready"
    /\ UNCHANGED <<calcVars, roundVars, listVars, serverVars, providerVars,
                   lifecycleVars, imageVars, posted, accepted>>

\* the remove button of a preview: removeFile(index), then updatePreviews
RemoveFile ==
    /\ pc = "ready"
    /\ \E index \in 0..(Len(selectedFiles) - 1) :
         /\ selectedFiles' = Splice(selectedFiles, index)
         /\ analyzeDisabled' = (Len(selectedFiles) = 1)
    /\ UNCHANGED <<calcVars, roundVars, listVars, serverVars, providerVars,
                   lifecycleVars, imageVars, posted, accepted, pc>>

\* the New Scan button
ResetToUpload ==
    /\ pc \in {"loaded", "ready"}
    /\ selectedFiles' = <<>>
    /\ analyzeDisabled' = TRUE
    /\ pc' = "ready"
    /\ UNCHANGED <<calcVars, roundVars, listVars, serverVars, providerVars,
                   lifecycleVars, imageVars, posted, accepted>>

\* the Analyze button: the selected files are posted to /api/analyze
Submit ==
    /\ pc \in {"loaded", "ready"}
    /\ ~analyzeDisabled
    /\ Len(selectedFiles) # 0
    /\ posted' = Len(selectedFiles)
    /\ accepted' = MulterAccepts(Len(selectedFiles))
    /\ UNCHANGED <<calcVars, roundVars, listVars, serverVars, providerVars,
                   lifecycleVars, imageVars, selectedFiles, analyzeDisabled,
                   pc>>

\* a request made by another client, with any number of files
PostDirectly ==
    /\ \E n \in 0..(MaxFiles + 1) :
         /\ posted' = n
         /\ accepted' = MulterAccepts(n)
    /\ UNCHANGED <<calcVars, roundVars, listVars, serverVars, providerVars,
                   lifecycleVars, imageVars, selectedFiles, analyzeDisabled,
                   pc>>

NextUi == AddFiles \/ RemoveFile \/ ResetToUpload \/ Submit \/ PostDirectly

SpecUi == InitUi /\ [][NextUi]_vars

----------------------------------------------------------------------------
(* Properties of calculateSuggestedPrice (specification Spec) *)

Returned == pc = "done"
Derivable == snapshot.avgSoldPrice > 0 \/ snapshot.avgActivePrice > 0
Priced == Returned /\ result.suggestedPrice # NULL

\* C1: when neither average is > 0, whatever the counts and the data source,
\* the result has the three prices null, confidence 'low', the single
\* insufficient-data methodology entry and outlierCount 0, and the function
\* returned before the competition and rounding steps (no ratio, factor or
\* adjusted price was computed and no priceBreakdown was built).
C1_InsufficientDataIsTerminal ==
    (Returned /\ ~(snapshot.avgSoldPrice > 0) /\ ~(snapshot.avgActivePrice > 0))
      => /\ result.suggestedPrice = NULL
         /\ result.quickSalePrice = NULL
         /\ result.premiumPrice = NULL
         /\ result.confidence = "low"
         /\ Len(result.methodology) = 1
         /\ result.methodology[1] = MsgInsufficient
         /\ result.outlierCount = 0
         /\ DOMAIN result = {"suggestedPrice", "quickSalePrice", "premiumPrice",
                             "confidence", "methodology", "outlierCount"}
         /\ DOMAIN locals = {"basePrice"}
         /\ locals.basePrice = UNDEFINED

\* the terminal case taken although the counts and the source are top-tier
C1_Witness ==
    /\ Returned
    /\ snapshot.avgSoldPrice = 0 /\ snapshot.avgActivePrice = 0
    /\ snapshot.soldCount = Num(20) /\ snapshot.activeCount = Num(5)
    /\ snapshot.dataSource = "exact"
    /\ result.suggestedPrice = NULL

\* C2: in every result, a null suggestedPrice comes with null quickSalePrice
\* and premiumPrice and confidence 'low'; the three prices are all null or
\* all non-null.
C2_NullPricesTogether ==
    Returned =>
      /\ result.suggestedPrice = NULL =>
           /\ result.quickSalePrice = NULL
           /\ result.premiumPrice = NULL
           /\ result.confidence = "low"
      /\ \/ /\ result.suggestedPrice = NULL
            /\ result.quickSalePrice = NULL
            /\ result.premiumPrice = NULL
         \/ /\ result.suggestedPrice # NULL
            /\ result.quickSalePrice # NULL
            /\ result.premiumPrice # NULL

\* a null result for a snapshot whose counts alone would not grade 'low'
C2_Witness ==
    /\ Returned
    /\ result.suggestedPrice = NULL
    /\ snapshot.soldCount = Num(12)
    /\ snapshot.dataSource = "no-results"

\* C3: whenever the prices are non-null,
\* quickSalePrice <= suggestedPrice <= premiumPrice.
C3_PriceOrdering ==
    Priced =>
      /\ result.quickSalePrice <= result.suggestedPrice
      /\ result.suggestedPrice <= result.premiumPrice

\* the quick-sale price lies in a lower rounding band than the other two
C3_Witness ==
    /\ Priced
    /\ result.quickSalePrice < 100 * UnitsPerDollar
    /\ result.suggestedPrice >= 100 * UnitsPerDollar
    /\ result.suggestedPrice < 500 * UnitsPerDollar
    /\ result.premiumPrice >= 100 * UnitsPerDollar
    /\ result.quickSalePrice < result.suggestedPrice
    /\ result.suggestedPrice < result.premiumPrice

\* C4: the base price comes from exactly one of three exclusive branches:
\* both averages > 0 gives 0.7*sold + 0.3*active, only sold > 0 gives sold,
\* only active > 0 gives 0.9*active; the first methodology entry is the
\* message of that branch and no other branch message is recorded.
C4_BaseSelection ==
    (Returned /\ Derivable) =>
      LET s == snapshot.avgSoldPrice
          a == snapshot.avgActivePrice
          m == result.methodology
          branchMsgs == {MsgWeighted, MsgSoldOnly, MsgActiveOnly,
                         MsgInsufficient}
      IN /\ (s > 0 /\ a > 0) =>
              /\ 10 * locals.basePrice = 7 * s + 3 * a
              /\ m[1] = MsgWeighted
         /\ (s > 0 /\ ~(a > 0)) =>
              /\ locals.basePrice = s
              /\ m[1] = MsgSoldOnly
         /\ (~(s > 0) /\ a > 0) =>
              /\ 10 * locals.basePrice = 9 * a
              /\ m[1] = MsgActiveOnly
         /\ Cardinality({i \in 1..Len(m) : m[i] \in branchMsgs}) = 1

\* the weighted branch taken with two different averages
C4_Witness ==
    /\ Returned
    /\ snapshot.avgSoldPrice > 0 /\ snapshot.avgActivePrice > 0
    /\ snapshot.avgSoldPrice # snapshot.avgActivePrice
    /\ result.methodology[1] = MsgWeighted

\* C5: competitionRatio is soldCount/activeCount when activeCount > 0 and 1
\* otherwise; the factor is 0.92 with the high-competition entry when the
\* ratio is strictly below 0.3, 1.05 with the strong-demand entry when it is
\* strictly above 2, and 1.0 with no entry otherwise.
C5_CompetitionAdjustment ==
    (Returned /\ Derivable) =>
      LET sc == snapshot.soldCount
          ac == snapshot.activeCount
          r == locals.competitionRatio
          f == locals.marketAdjustment
          m == result.methodology
          below == ~r.nan /\ 10 * r.n < 3 * r.d
          above == ~r.nan /\ r.n > 2 * r.d
      IN /\ (GT(ac, 0) /\ sc.isNum) => (~r.nan /\ r.n * ac.n = sc.n * r.d)
         /\ (GT(ac, 0) /\ ~sc.isNum) => r.nan
         /\ ~GT(ac, 0) => (~r.nan /\ r.n = r.d)
         /\ below => (f = 92 /\ Len(m) = 2 /\ m[2] = MsgHighCompetition)
         /\ above => (f = 105 /\ Len(m) = 2 /\ m[2] = MsgStrongDemand)
         /\ (~below /\ ~above) => (f = 100 /\ Len(m) = 1)
         /\ result.priceBreakdown.marketAdjustment = f

\* a ratio of exactly 0.3 (3 sold, 10 active) left unadjusted
C5_Witness ==
    /\ Returned /\ Derivable
    /\ snapshot.soldCount = Num(3) /\ snapshot.activeCount = Num(10)
    /\ locals.marketAdjustment = 100
    /\ Len(result.methodology) = 1

C7_HighIffExactMatch ==
    (Returned /\ Derivable) =>
      (result.confidence = "high"
         <=> (GE(snapshot.soldCount, 20) /\ snapshot.dataSource = "exact-match"))

\* C8: for a derivable price for which the 'high' condition does not hold,
\* confidence is 'low' if and only if soldCount < 5 or dataSource is
\* "category-estimate", and 'medium' otherwise.
C8_LowIffCategoryEstimate ==
    (/\ Returned /\ Derivable
     /\ ~(GE(snapshot.soldCount, 20) /\ snapshot.dataSource = "exact-match"))
      => IF LT(snapshot.soldCount, 5) \/ snapshot.dataSource = "category-estimate"
           THEN result.confidence = "low"
           ELSE result.confidence = "medium"

\* C17: for every snapshot with at least one average price > 0, a sentinel
\* soldCount or activeCount included, the result carries a priceBreakdown
\* whose four fields, competitionRatio included, are finite numbers.
C17_BreakdownAllFinite ==
    (Returned /\ Derivable) =>
      /\ "priceBreakdown" \in DOMAIN result
      /\ result.priceBreakdown.avgSoldContribution \in Nat
      /\ result.priceBreakdown.avgActiveContribution \in Nat
      /\ result.priceBreakdown.marketAdjustment \in {92, 100, 105}
      /\ ~result.priceBreakdown.competitionRatio.nan

\* C20: on every priced path the breakdown holds 0.7*avgSoldPrice and
\* 0.3*avgActivePrice, each rounded to the cent and taken from the raw
\* averages whatever branch chose the base, the factor actually applied
\* (0.92, 1.0 or 1.05), and the competition ratio rounded to 2 decimals.
C20_PriceBreakdown ==
    Priced =>
      LET b == result.priceBreakdown
          cs == b.avgSoldContribution
          ca == b.avgActiveContribution
          rr == b.competitionRatio
          sc == snapshot.soldCount
          ac == snapshot.activeCount
      IN /\ cs % Cent = 0
         /\ 10 * cs - 5 * Cent <= 7 * snapshot.avgSoldPrice
         /\ 7 * snapshot.avgSoldPrice < 10 * cs + 5 * Cent
         /\ ca % Cent = 0
         /\ 10 * ca - 5 * Cent <= 3 * snapshot.avgActivePrice
         /\ 3 * snapshot.avgActivePrice < 10 * ca + 5 * Cent
         /\ b.marketAdjustment \in {92, 100, 105}
         /\ locals.adjustedPrice = (locals.basePrice \div 100) * b.marketAdjustment
         /\ (GT(ac, 0) /\ sc.isNum) =>
              /\ ~rr.nan /\ rr.d = 100
              /\ (2 * rr.n - 1) * ac.n <= 200 * sc.n
              /\ 200 * sc.n < (2 * rr.n + 1) * ac.n
         /\ (GT(ac, 0) /\ ~sc.isNum) => rr.nan
         /\ ~GT(ac, 0) => (~rr.nan /\ rr.n = rr.d)

\* the sold-only branch: the base is the whole sold average, the recorded
\* contribution is 70% of it; 1 sale for 3 listings is recorded as 0.33
C20_Witness ==
    /\ Priced
    /\ snapshot.avgSoldPrice > 0 /\ snapshot.avgActivePrice = 0
    /\ locals.basePrice = snapshot.avgSoldPrice
    /\ result.priceBreakdown.avgSoldContribution < locals.basePrice
    /\ result.priceBreakdown.avgActiveContribution = 0
    /\ snapshot.soldCount = Num(1) /\ snapshot.activeCount = Num(3)
    /\ result.priceBreakdown.competitionRatio = Ratio(33, 100)

\* C21: the snapshot with averages 100 and 80, 10 sold, 40 active and
\* dataSource "exact-match" yields ratio 0.25, factor 0.92, suggested price
\* 85, quick-sale price 75, premium price 100, confidence 'medium' and the
\* methodology <<weighted average, high-competition adjustment>>.
C21_WorkedExample ==
    (Returned /\ snapshot = ExampleSnapshot) =>
      /\ ~locals.competitionRatio.nan
      /\ 4 * locals.competitionRatio.n = locals.competitionRatio.d
      /\ result.priceBreakdown.competitionRatio = Ratio(25, 100)
      /\ locals.marketAdjustment = 92
      /\ result.priceBreakdown.marketAdjustment = 92
      /\ result.suggestedPrice = 85 * UnitsPerDollar
      /\ result.quickSalePrice = 75 * UnitsPerDollar
      /\ result.premiumPrice = 100 * UnitsPerDollar
      /\ result.confidence = "medium"
      /\ result.methodology = <<MsgWeighted, MsgHighCompetition>>

\* the example has been calculated: base 94, adjusted 86.48
C21_Witness ==
    /\ Returned
    /\ snapshot = ExampleSnapshot
    /\ locals.basePrice = 94 * UnitsPerDollar
    /\ locals.adjustedPrice = 8648 * Cent

----------------------------------------------------------------------------
(* Properties of removeOutliers (specification SpecOutliers) *)

\* the k-th smallest element of s, k counted from 0, found by rank
KthSmallest(s, k) ==
    CHOOSE v \in {s[i] : i \in 1..Len(s)} :
      /\ Cardinality({i \in 1..Len(s) : s[i] < v}) <= k
      /\ Cardinality({i \in 1..Len(s) : s[i] <= v}) > k

RECURSIVE IsSubsequence(_, _)
IsSubsequence(a, b) ==
    IF a = <<>> THEN TRUE
    ELSE IF b = <<>> THEN FALSE
    ELSE IF Head(a) = Head(b) THEN IsSubsequence(Tail(a), Tail(b))
    ELSE IsSubsequence(a, Tail(b))

\* C11: for n >= 4 prices removeOutliers keeps exactly the elements v with
\* q1 - 1.5*iqr <= v <= q3 + 1.5*iqr, q1 and q3 being the elements of rank
\* floor(n*0.25) and floor(n*0.75); filtered is the input with the other
\* elements taken out, in the input's order, and outlierCount is the number
\* taken out; [1,2,3,4,100] gives outlierCount 1 with 100 removed.
C11_IqrFilter ==
    (pc # "filter" /\ Len(prices) >= 4) =>
      LET n == Len(prices)
          q1 == KthSmallest(prices, n \div 4)
          q3 == KthSmallest(prices, (3 * n) \div 4)
          iqr == q3 - q1
          kept(v) == 2 * q1 - 3 * iqr <= 2 * v /\ 2 * v <= 2 * q3 + 3 * iqr
      IN /\ outl.filtered = SelectSeq(prices, kept)
         /\ IsSubsequence(outl.filtered, prices)
         /\ outl.outlierCount = n - Len(outl.filtered)
         /\ prices = <<2, 4, 6, 8, 200>> =>
              outl = [filtered |-> <<2, 4, 6, 8>>, outlierCount |-> 1]

\* an unsorted list loses its outlier and keeps its order
C11_Witness ==
    /\ pc # "filter"
    /\ prices = <<8, 200, 2, 6, 4>>
    /\ outl = [filtered |-> <<8, 2, 6, 4>>, outlierCount |-> 1]

\* C12: a list of fewer than 4 prices is returned unchanged with
\* outlierCount 0.
C12_ShortListUnchanged ==
    (pc # "filter" /\ Len(prices) < 4) =>
      /\ outl.filtered = prices
      /\ outl.outlierCount = 0

\* three prices, one of them far from the others, all kept
C12_Witness ==
    /\ pc # "filter"
    /\ prices = <<2, 200, 4>>
    /\ outl.filtered = prices
    /\ outl.outlierCount = 0

\* C13 as stated: filtering the filtered list again removes nothing.
C13_TwiceStable ==
    pc = "filtered" =>
      /\ outl2.outlierCount = 0
      /\ outl2.filtered = outl.filtered

\* C13 amended: filtering the filtered list again removes nothing when the
\* input has at most 4 prices; for longer inputs it may remove more, and its
\* filtered list is then a subsequence of the first one, with outlierCount
\* the number of prices it removed.
C13_TwiceStableUpTo4 ==
    pc = "filtered" =>
      /\ Len(prices) <= 4 =>
           /\ outl2.outlierCount = 0
           /\ outl2.filtered = outl.filtered
      /\ IsSubsequence(outl2.filtered, outl.filtered)
      /\ outl2.outlierCount = Len(outl.filtered) - Len(outl2.filtered)

\* four prices of which the first pass removes one, the second none
C13_Witness ==
    /\ pc = "filtered"
    /\ prices = <<2, 8, 8, 8>>
    /\ outl.outlierCount = 1
    /\ outl2.outlierCount = 0
    /\ outl2.filtered = outl.filtered

----------------------------------------------------------------------------
(* Properties of analyzePriceDistribution (specification SpecDist) *)

Analyzed == pc = "analyzed"

\* the greatest number of occurrences of one value in s
TopCount(s) ==
    CHOOSE c \in 1..Len(s) :
      /\ \E i \in 1..Len(s) : Count(s, s[i]) = c
      /\ \A i \in 1..Len(s) : Count(s, s[i]) <= c

\* C14 as stated: the mode is the most frequent integer-rounded price and,
\* among several of the top frequency, the one met first in the input.
C14_ModeFirstEncountered ==
    (Analyzed /\ prices # <<>>) =>
      LET r == RoundedPrices(prices)
          first == CHOOSE i \in 1..Len(r) :
                     /\ Count(r, r[i]) = TopCount(r)
                     /\ \A j \in 1..(i - 1) : Count(r, r[j]) < TopCount(r)
      IN dist.mode = 100 * r[first]

\* C14 amended: the mode is the most frequent integer-rounded price and,
\* among several of the top frequency, the numerically smallest one.
C14_ModeSmallestOfTop ==
    (Analyzed /\ prices # <<>>) =>
      LET r == RoundedPrices(prices)
          tops == {r[i] : i \in {j \in 1..Len(r) : Count(r, r[j]) = TopCount(r)}}
      IN /\ dist.mode \in {100 * v : v \in tops}
         /\ \A v \in tops : dist.mode <= 100 * v

\* 30 and 10 both occur twice, 30 first: the mode is 10
C14_Witness ==
    /\ Analyzed
    /\ prices = <<60, 59, 20, 20>>
    /\ dist.mode = 1000

\* C15: on the empty list the result has the four fields median, mode,
\* stdDev and mean, all 0.
C15_EmptyAllZero ==
    (Analyzed /\ prices = <<>>) =>
      /\ DOMAIN dist = {"median", "mode", "stdDev", "mean"}
      /\ dist.median = 0
      /\ dist.mode = 0
      /\ dist.stdDev = 0
      /\ dist.mean = 0

\* the statistics of a non-empty list, each stated without the sort and the
\* square root of the code
StatisticsCorrect ==
    (Analyzed /\ prices # <<>>) =>
      LET n == Len(prices)
          total == Sum(prices)
          d == n * Sum([i \in 1..n |-> prices[i] * prices[i]]) - total * total
          m == dist.mean
          sd == dist.stdDev
      IN /\ DOMAIN dist = {"median", "mode", "stdDev", "mean"}
         /\ n % 2 = 1 => dist.median = 50 * KthSmallest(prices, n \div 2)
         /\ n % 2 = 0 =>
              dist.median = 25 * (KthSmallest(prices, (n \div 2) - 1)
                                  + KthSmallest(prices, n \div 2))
         /\ (2 * m - 1) * n <= 100 * total
         /\ 100 * total < (2 * m + 1) * n
         /\ sd >= 0
         /\ sd > 0 => (2 * sd - 1) * (2 * sd - 1) * n * n <= 10000 * d
         /\ 10000 * d < (2 * sd + 1) * (2 * sd + 1) * n * n
         /\ prices = <<20, 40, 40, 60>> =>
              dist = [median |-> 2000, mode |-> 2000, mean |-> 2000,
                      stdDev |-> 707]

\* C16: for a non-empty list the median is the sorted middle element (the
\* average of the two middle ones for an even length), the mean and the
\* population standard deviation (division by N) are computed from the
\* unrounded prices, each is rounded to 2 decimals, and the input list is
\* not modified; [10,20,20,30] gives median 20, mode 20, mean 20,
\* stdDev 7.07.
C16_Statistics == [](StatisticsCorrect) /\ [][prices' = prices]_vars

\* an even-length list with a half-dollar price: the median is the average
\* of the two middle prices and the mean is not the mean of the rounded ones
C16_Witness ==
    /\ Analyzed
    /\ prices = <<60, 19, 40, 20>>
    /\ dist.median = 1500
    /\ dist.mean = 1738
    /\ dist.stdDev = 841

----------------------------------------------------------------------------
(* Properties of the request handler (specification SpecServer) *)

Responded(r) == reqs[r].pc = "responded"

EqualSnapshotsEqualResults ==
    \A r1, r2 \in Requests :
      (Responded(r1) /\ Responded(r2) /\ reqs[r1].fetched = reqs[r2].fetched)
        => reqs[r1].priceAnalysis = reqs[r2].priceAnalysis

SnapshotsNotModified ==
    \A r \in Requests : Responded(r) => reqs[r].ebayData = reqs[r].fetched

C19_NoOutliersOnMainPath ==
    /\ [](\A r \in Requests :
            Responded(r) =>
              /\ reqs[r].priceAnalysis.outlierCount = 0
              /\ \A i \in 1..Len(reqs[r].notes) :
                   reqs[r].notes[i].text # NoteOutliers)
    /\ [][outl' = outl /\ outl2' = outl2]_vars

\* one request answered on the terminal path and one on a priced path, both
\* with data quality notes
C19_Witness ==
    /\ Responded(1) /\ Responded(2)
    /\ reqs[1].priceAnalysis.suggestedPrice = NULL
    /\ reqs[2].priceAnalysis.suggestedPrice # NULL
    /\ Len(reqs[1].notes) > 0 /\ Len(reqs[2].notes) > 0

----------------------------------------------------------------------------
(* Properties of the production provider (specification SpecProduction) *)

ProviderReturned == pc \in {"start", "done"}

NoSearchData ==
    \/ search.kind = "null"
    \/ search.kind = "data" /\ ~search.sold.present /\ ~search.active.present

\* C22: fetchEbayData never rejects because of a search failure: without a
\* client it returns 'unavailable' and calls no search, a search that throws
\* gives 'error', a search without sold or active data gives 'no-results';
\* in the three cases both averages are 0 and calculateSuggestedPrice takes
\* its terminal case.
C22_SearchFailureIsASnapshot ==
    /\ pc # "rejected"
    /\ ProviderReturned =>
         /\ ~client => /\ snapshot.dataSource = "unavailable"
                       /\ calls = 0
                       /\ search.kind = "not-called"
         /\ (client /\ search.kind = "threw") => snapshot.dataSource = "error"
         /\ (client /\ NoSearchData) => snapshot.dataSource = "no-results"
         /\ snapshot.dataSource \in {"unavailable", "error", "no-results"} =>
              /\ snapshot.avgSoldPrice = 0 /\ snapshot.avgActivePrice = 0
              /\ Returned =>
                   /\ result.suggestedPrice = NULL
                   /\ result.quickSalePrice = NULL
                   /\ result.premiumPrice = NULL
                   /\ result.methodology = <<MsgInsufficient>>

\* a search that threw, answered by the 'error' snapshot and the terminal case
C22_Witness ==
    /\ Returned
    /\ client /\ calls = 1 /\ search.kind = "threw"
    /\ snapshot.dataSource = "error"
    /\ result.suggestedPrice = NULL

SufficientSearch ==
    \/ search.sold.count >= 3
    \/ search.sold.count >= 1 /\ search.active.count >= 5

\* C24: the provider makes at most three query attempts in sequence, a
\* broader one whenever the result so far fails the sufficiency predicate
\* soldCount >= 3 or (soldCount >= 1 and activeCount >= 5), and tags the
\* snapshot exact-match, similar-items or category-estimate after the level
\* whose result it returns.
C24_TieredFallback ==
    (ProviderReturned /\ client /\ search.kind = "data") =>
      /\ calls \in 1..3
      /\ ~SufficientSearch => calls >= 2
      /\ calls = 1 => snapshot.dataSource = "exact-match"
      /\ calls = 2 => snapshot.dataSource \in {"exact-match", "similar-items"}
      /\ snapshot.dataSource \in
           {"exact-match", "similar-items", "category-estimate"}

----------------------------------------------------------------------------
(* Properties of the hybrid provider (specification SpecHybrid) *)

\* C23: with a client configured, whenever the search returns an object
\* with sold or active data the returned snapshot is built from that data
\* (dataSource 'exact' or 'similar', averages from the search); 'estimated'
\* is returned only without a client or when the search gave nothing.
C23_SearchDataIsUsed ==
    ProviderReturned =>
      /\ (client /\ search.kind = "data"
            /\ (search.sold.present \/ search.active.present)) =>
           /\ snapshot.dataSource \in {"exact", "similar"}
           /\ snapshot.avgSoldPrice \in {search.sold.avg, search.active.avg}
           /\ snapshot.avgActivePrice \in {search.sold.avg, search.active.avg}
      /\ snapshot.dataSource = "estimated" => (~client \/ NoSearchData)

\* C30: the 'estimated' snapshot has low <= avgSoldPrice <= high, at least
\* 5 sold, round(1.2 * soldCount) active and a positive active average;
\* calculateSuggestedPrice on it takes the weighted branch, applies the
\* factor 1.0 with no adjustment entry, and grades confidence 'medium'.
C30_EstimatedSnapshot ==
    (ProviderReturned /\ snapshot.dataSource = "estimated") =>
      /\ priceRange.low <= snapshot.avgSoldPrice
      /\ snapshot.avgSoldPrice <= priceRange.high
      /\ snapshot.soldCount.isNum /\ snapshot.soldCount.n >= 5
      /\ snapshot.activeCount.isNum
      /\ 10 * snapshot.activeCount.n - 5 <= 12 * snapshot.soldCount.n
      /\ 12 * snapshot.soldCount.n < 10 * snapshot.activeCount.n + 5
      /\ snapshot.avgActivePrice > 0
      /\ Returned =>
           /\ result.methodology = <<MsgWeighted>>
           /\ locals.marketAdjustment = 100
           /\ result.priceBreakdown.marketAdjustment = 100
           /\ result.confidence = "medium"

\* the rarest table entry (15 sold) reached through its collaboration
\* pattern at the lowest confidence, priced from the estimate
C30_Witness ==
    /\ Returned
    /\ snapshot.dataSource = "estimated"
    /\ "gorillaz" \in item.mentions /\ item.confidence = 50
    /\ snapshot.soldCount = Num(15) /\ snapshot.activeCount = Num(18)
    /\ snapshot.avgSoldPrice = 275 * UnitsPerDollar
    /\ priceRange.low < 150 * UnitsPerDollar
    /\ result.confidence = "medium"

----------------------------------------------------------------------------
(* Properties of one request (specifications SpecLifecycle and
   SpecLifecycleFair) *)

Answered == pc = "responded"

\* C25: whenever a collaborator fails (analyzeImages, or the market-data
\* search) the request is answered 500 and not 200, and
\* calculateSuggestedPrice is not invoked for it.
C25_CollaboratorFailureIs500 ==
    (failure # "none" \/ search.kind = "threw") =>
      /\ result = NoResult
      /\ Answered => responses = <<500>>

\* C25 as amended: whenever an awaited collaborator call rejects
\* (analyzeImages, or fetchEbayData itself) the request is answered 500 and
\* calculateSuggestedPrice is not invoked for it; a search that fails does
\* not fail the request: the provider turns it into the 'error' snapshot and
\* the request is answered 200 with the terminal recommendation.
C25_RejectionIs500 ==
    /\ failure # "none" =>
         /\ result = NoResult
         /\ Answered => responses = <<500>>
    /\ (Answered /\ search.kind = "threw") =>
         /\ failure = "none"
         /\ responses = <<200>>
         /\ snapshot.dataSource = "error"
         /\ result.suggestedPrice = NULL

\* a request answered 500 after the rate limit error of analyzeImages
C25_Witness ==
    /\ Answered
    /\ failure = "rate limit"
    /\ steps = <<"analyzeImages">>
    /\ responses = <<500>>

StepsInOrder ==
    /\ steps \in {<<>>, <<"analyzeImages">>,
                  <<"analyzeImages", "fetchEbayData">>}
    /\ snapshot # NoSnapshot => Len(steps) = 2
    /\ result # NoResult => (Len(steps) = 2 /\ snapshot # NoSnapshot)

UnlinkedBeforeResponse == responses # <<>> => unlinked = 1..upload

\* C28: for a request with at least one uploaded file the steps run in the
\* order analyzeImages, fetchEbayData, calculateSuggestedPrice, an unlink
\* has been attempted for every uploaded file when the response is sent, on
\* the success path and on every failure path, and exactly one response is
\* eventually sent.
C28_LifecycleOfARequest ==
    /\ [](upload > 0 =>
            /\ StepsInOrder
            /\ UnlinkedBeforeResponse
            /\ Len(responses) <= 1)
    /\ (upload > 0) ~> (Len(responses) = 1)

\* three files unlinked, then the result sent
C28_Witness ==
    /\ Answered
    /\ upload = 3 /\ unlinked = {1, 2, 3}
    /\ result # NoResult
    /\ responses = <<200>>

----------------------------------------------------------------------------
(* Properties of analyzeImages (specification SpecIdentify) *)

\* C26: the confidence of every returned identification is within [0,1]: a
\* negative value becomes 0, a value above 1 becomes 1, a missing or zero
\* value becomes 0.5, and a value within (0,1] is kept.
C26_ConfidenceClamped ==
    pc = "identified" =>
      /\ confidence \in 0..100
      /\ (~parsed.present \/ parsed.value = 0) => confidence = 50
      /\ (parsed.present /\ parsed.value < 0) => confidence = 0
      /\ (parsed.present /\ parsed.value > 100) => confidence = 100
      /\ (parsed.present /\ parsed.value \in 1..100) =>
           confidence = parsed.value

\* a negative confidence raised to 0
C26_Witness ==
    /\ pc = "identified"
    /\ parsed.present /\ parsed.value = -30
    /\ confidence = 0

----------------------------------------------------------------------------
(* Properties of the upload form (specification SpecUi) *)

\* C27: after any sequence of addFiles, removeFile and resetToUpload,
\* selectedFiles holds at most 5 files, none larger than 10 MB, and the
\* Analyze button is enabled exactly when selectedFiles is not empty; the
\* server accepts at most 5 images in a request.
C27_SelectionLimits ==
    /\ pc = "ready" =>
         /\ Len(selectedFiles) <= 5
         /\ \A i \in 1..Len(selectedFiles) : selectedFiles[i] <= 10
         /\ ~analyzeDisabled <=> selectedFiles # <<>>
    /\ accepted => posted <= 5

\* five files selected in several batches, the last one of exactly 10 MB,
\* and posted
C27_Witness ==
    /\ pc = "ready"
    /\ Len(selectedFiles) = 5
    /\ selectedFiles[5] = 10
    /\ ~analyzeDisabled
    /\ posted = 5 /\ accepted

----------------------------------------------------------------------------
(* Properties of roundToNearestSensible (specification SpecRound) *)

\* the step of the band the unrounded input lies in
BandStep(p) ==
    IF p < 10 * UnitsPerDollar THEN UnitsPerDollar \div 2
    ELSE IF p < 50 * UnitsPerDollar THEN UnitsPerDollar
    ELSE IF p < 100 * UnitsPerDollar THEN 5 * UnitsPerDollar
    ELSE IF p < 500 * UnitsPerDollar THEN 10 * UnitsPerDollar
    ELSE 25 * UnitsPerDollar

\* C9: for every non-negative price the function returns the multiple of the
\* band step nearest to the price, a price half-way between two multiples
\* going to the upper one; the band is chosen by the unrounded input.
C9_NearestMultipleOfBandStep ==
    pc # "round" =>
      LET step == BandStep(price)
      IN /\ rounded >= 0
         /\ rounded % step = 0
         /\ 2 * (rounded - price) <= step
         /\ 2 * (price - rounded) < step

\* roundToNearestSensible is non-decreasing from each cent to the next, band
\* edges included, and keeps 0.85*p, p and 1.15*p in order for every price p
\* of the cent grid
RoundMonotone ==
    pc # "round" =>
      /\ rounded <= roundToNearestSensible(price + Cent)
      /\ roundToNearestSensible(Mul(price, 17, 20)) <= rounded
      /\ rounded <= roundToNearestSensible(Mul(price, 23, 20))

\* 52.50 is half-way between 50 and 55 and goes to 55
C9_Witness ==
    /\ pc # "round"
    /\ price = 5250 * Cent
    /\ 2 * (rounded - price) = BandStep(price)
    /\ rounded = 55 * UnitsPerDollar

\* C10: f(f(x)) = f(x) for every input, also when f(x) lands in the next
\* band: 9.99 gives 10, 49.99 gives 50, 99.99 gives 100, 499.99 gives 500,
\* and 10, 50, 100, 500 are fixed points.
C10_Idempotent ==
    pc = "rounded" =>
      /\ rerounded = rounded
      /\ \A e \in {10, 50, 100, 500} :
           /\ price = e * UnitsPerDollar - Cent => rounded = e * UnitsPerDollar
           /\ price = e * UnitsPerDollar => rounded = price

\* 99.99 is rounded in the band of step 5 to 100, which the band of step 10
\* leaves alone
C10_Witness ==
    /\ pc = "rounded"
    /\ price = 9999 * Cent
    /\ rounded = 100 * UnitsPerDollar
    /\ BandStep(rounded) # BandStep(price)
    /\ rerounded = rounded

====
